---------------------------- MODULE Spec2Model ----------------------------
(***************************************************************************)
(* Model of ultrabrowser.tor_logic.TorManager: the proxy lifecycle and     *)
(* liveness verification state machine of UltraBrowser.                    *)
(*                                                                         *)
(* One manager, driven sequentially.  Each public method is one action;    *)
(* the behaviour of the external collaborators (the stem control client,   *)
(* the TCP sockets, Qt's application proxy) is an input of the action.      *)
(* Every call leaves in `last` what an observer of the call sees: the      *)
(* operation, the environment it met, its result (a return value or a      *)
(* raised exception), the sequence of calls it made on its collaborators,  *)
(* and the state before the call.                                          *)
(***************************************************************************)
EXTENDS Integers, Sequences, FiniteSets, TLC

VARIABLES
    tor_config,     \* self.tor_config : TorConfig
    debug_mode,     \* self.debug_mode
    proxy,          \* self.proxy : the QNetworkProxy built by __init__
    tor_enabled,    \* self.tor_enabled
    appProxy,       \* Qt's process-wide application proxy
    last,           \* observation of the last completed call
    ui,             \* BrowserWindow.tor_toggle, and whether the window still runs
    twin,           \* a second run: the same manager with the other debug_mode
    calls,          \* calls of enable_tor / disable_tor in progress, per caller
    second,         \* a second TorManager of the same process
    window,         \* BrowserWindow: its tabs and its camera / microphone toggles
    engine          \* one BrowserEngine: its HTTPS redirect bookkeeping

vars == <<tor_config, debug_mode, proxy, tor_enabled, appProxy, last, ui, twin,
          calls, second, window, engine>>

---------------------------------------------------------------------------
(* Configuration (config.py, TorConfig)                                    *)

DefaultSocksPort == 9050
DefaultControlPort == 9051
DefaultTimeout == 10
DefaultRetryAttempts == 3

\* TorConfig(): the dataclass defaults.
DefaultTorConfig ==
    [socks_port |-> DefaultSocksPort, control_port |-> DefaultControlPort,
     host |-> "127.0.0.1", timeout |-> DefaultTimeout,
     retry_attempts |-> DefaultRetryAttempts]

\* The configurations a manager is constructed with: the defaults, a Tor
\* Browser style local service, and a service on another host.
TorConfigs ==
    { DefaultTorConfig,
      [socks_port |-> 9150, control_port |-> 9151, host |-> "127.0.0.1",
       timeout |-> 30, retry_attempts |-> 0],
      [socks_port |-> 9050, control_port |-> 9051, host |-> "10.0.0.2",
       timeout |-> 5, retry_attempts |-> 1] }

\* TorConfig(...): the dataclass has no __post_init__, so every argument is
\* stored as given and construction does not raise.
NewTorConfig(socks_port, control_port, host, timeout, retry_attempts) ==
    [socks_port |-> socks_port, control_port |-> control_port, host |-> host,
     timeout |-> timeout, retry_attempts |-> retry_attempts]

\* A TCP port number.
IsPort(p) == p \in 1..65535

\* Configurations outside the documented ranges: a control port above
\* 65535 and an empty host.
OutOfRangeTorConfigs ==
    { NewTorConfig(DefaultSocksPort, 70000, "127.0.0.1", DefaultTimeout, DefaultRetryAttempts),
      NewTorConfig(DefaultSocksPort, DefaultControlPort, "", DefaultTimeout, DefaultRetryAttempts) }

---------------------------------------------------------------------------
(* Proxy descriptors (QNetworkProxy values)                                *)

Socks5Descriptor(host, port) == [kind |-> "Socks5Proxy", host |-> host, port |-> port]

\* QNetworkProxy(QNetworkProxy.ProxyType.NoProxy)
NoProxyDesc == [kind |-> "NoProxy", host |-> "", port |-> 0]

\* The application proxy of a process that never called setApplicationProxy.
UnsetProxyDesc == [kind |-> "DefaultProxy", host |-> "", port |-> 0]

InitialAppProxies == {UnsetProxyDesc, NoProxyDesc}

---------------------------------------------------------------------------
(* Exceptions raised by the collaborators                                  *)

\* Exception classes that `except (ConnectionRefusedError, OSError)` catches.
OSErrorClasses == {"ConnectionRefusedError", "OSError", "TimeoutError"}

\* Messages are sequences of words; str.lower() acts word by word.
LowerWord(w) ==
    CASE w = "Authentication" -> "authentication"
      [] w = "PASSWORD" -> "password"
      [] w = "Password" -> "password"
      [] w = "Connection" -> "connection"
      [] w = "Unexpected" -> "unexpected"
      [] w = "Incorrect" -> "incorrect"
      [] OTHER -> w

Lower(msg) == [i \in DOMAIN msg |-> LowerWord(msg[i])]

Contains(msg, w) == \E i \in DOMAIN msg : msg[i] = w

Errors ==
    { [cls |-> "ConnectionRefusedError", msg |-> <<"Connection", "refused">>],
      [cls |-> "OSError", msg |-> <<"Authentication", "socket", "closed">>],
      [cls |-> "Exception", msg |-> <<"Authentication", "failed">>],
      [cls |-> "Exception", msg |-> <<"Incorrect", "PASSWORD">>],
      [cls |-> "Exception", msg |-> <<"Unexpected", "reply">>],
      [cls |-> "stem.SocketError", msg |-> <<"Connection", "refused">>] }

NoError == [cls |-> "-", msg |-> <<>>]


---------------------------------------------------------------------------
(* Environment met by one call                                             *)

\* The control connection: the step of the stem client that raises, if any,
\* and the exception it raises.
CtlCheckSteps == <<"connect", "authenticate", "close">>
CtlSignalSteps == <<"connect", "authenticate", "signal", "close">>
Range(f) == {f[i] : i \in DOMAIN f}

CtlOk == [failAt |-> "none", err |-> NoError]
CtlEnvs(steps) ==
    {CtlOk} \cup {[failAt |-> s, err |-> e] : s \in Range(steps), e \in Errors}
NoCtl == [failAt |-> "-", err |-> NoError]

\* The SOCKS port probe: connect_ex returns 0 ("up"), returns an errno
\* ("down"), or raises (a name that does not resolve, for instance).
SocksEnvs == {"up", "down", "raise"}
NoSocks == "-"

\* The raw request of get_current_ip: the step that raises, how, and the
\* text received.
IpSteps == {"connect", "sendall", "recv", "decode"}
IpErrKinds == {"socket.timeout", "Exception"}
Responses ==
    { <<"HTTP/1.1", "200", "IP", "185.220.101.1">>,
      <<"HTTP/1.1", "400", "Bad", "Request">>,
      <<"ip", "unknown">>,
      <<>> }
IpEnvs ==
    {[failAt |-> "none", kind |-> "-", resp |-> r] : r \in Responses}
    \cup {[failAt |-> s, kind |-> k, resp |-> <<>>] : s \in IpSteps, k \in IpErrKinds}
NoIp == [failAt |-> "-", kind |-> "-", resp |-> <<>>]

---------------------------------------------------------------------------
(* Calls made on the collaborators, as the call's trace records them       *)

\* Address stem's Controller.from_port uses when it is given only a port.
StemDefaultAddress == "127.0.0.1"

\* Timeout the SOCKS probe of verify_tor_connection sets on its socket.
SocksProbeTimeout == 5

Ev(ev, kind, host, port, timeout, ok) ==
    [ev |-> ev, kind |-> kind, host |-> host, port |-> port, timeout |-> timeout, ok |-> ok]

CtlConnectEv(cfg, ok) == Ev("ctl_connect", "-", StemDefaultAddress, cfg.control_port, 0, ok)
CtlEv(name, ok) == Ev(name, "-", "", 0, 0, ok)
SockConnectEv(cfg, timeout, ok) == Ev("socks_connect", "-", cfg.host, cfg.socks_port, timeout, ok)
SockEv(name, ok) == Ev(name, "-", "", 0, 0, ok)
SetAppProxyEv(d, ok) == Ev("setApplicationProxy", d.kind, d.host, d.port, 0, ok)

\* The calls a control session makes: `steps` in order, up to and including
\* the step that raises.
RECURSIVE CtlSession(_, _, _)
CtlSession(cfg, steps, failAt) ==
    IF steps = <<>> THEN <<>>
    ELSE LET s == Head(steps)
             ok == (s # failAt)
             e == CASE s = "connect" -> CtlConnectEv(cfg, ok)
                    [] s = "authenticate" -> CtlEv("ctl_authenticate", ok)
                    [] s = "signal" -> CtlEv("ctl_signal_NEWNYM", ok)
                    [] s = "close" -> CtlEv("ctl_close", ok)
         IN  IF ok THEN <<e>> \o CtlSession(cfg, Tail(steps), failAt) ELSE <<e>>

---------------------------------------------------------------------------
(* Results of a call                                                       *)

Return(v) == [raised |-> FALSE, val |-> v, text |-> <<>>]
ReturnText(t) == [raised |-> FALSE, val |-> "str", text |-> t]
Raise(cls) == [raised |-> TRUE, val |-> cls, text |-> <<>>]

Outcome(res, trace) == [res |-> res, trace |-> trace]

---------------------------------------------------------------------------
(* TorManager.__init__                                                     *)

\* Faulty variant: the descriptor is built with the control port.
ManagerProxy_ControlPort(cfg) == Socks5Descriptor(cfg.host, cfg.control_port)

\* The QNetworkProxy __init__ builds: Socks5Proxy, host and SOCKS port of
\* the configuration.
ManagerProxy(cfg) == Socks5Descriptor(cfg.host, cfg.socks_port)

---------------------------------------------------------------------------
(* TorManager.is_tor_running                                               *)

\* Faulty variant: the `except (ConnectionRefusedError, OSError)` clause is missing.
Classify_NoOSErrorClause(err) ==
    IF Contains(Lower(err.msg), "authentication") \/ Contains(Lower(err.msg), "password")
    THEN "TorAuthenticationError"
    ELSE "TorConnectionError"

\* Faulty variant: the message is looked at before the exception type.
Classify_MessageFirst(err) ==
    IF Contains(Lower(err.msg), "authentication") \/ Contains(Lower(err.msg), "password")
    THEN "TorAuthenticationError"
    ELSE IF err.cls \in OSErrorClasses THEN "TorNotRunningError"
    ELSE "TorConnectionError"

\* The except clauses of is_tor_running: the class of the failure.
Classify(err) ==
    IF err.cls \in OSErrorClasses THEN "TorNotRunningError"
    ELSE IF Contains(Lower(err.msg), "authentication") \/ Contains(Lower(err.msg), "password")
         THEN "TorAuthenticationError"
         ELSE "TorConnectionError"

\* Faulty variant: debug_mode is not consulted, every failure returns False.
is_tor_running_NeverRaises(cfg, debug, ctl) ==
    LET trace == CtlSession(cfg, CtlCheckSteps, ctl.failAt)
    IN  IF ctl.failAt = "none" THEN Outcome(Return("True"), trace)
        ELSE Outcome(Return("False"), trace)

\* Faulty variant: in debug mode the message is looked at before the type.
is_tor_running_DebugMessageFirst(cfg, debug, ctl) ==
    LET trace == CtlSession(cfg, CtlCheckSteps, ctl.failAt)
    IN  IF ctl.failAt = "none" THEN Outcome(Return("True"), trace)
        ELSE IF debug THEN Outcome(Raise(Classify_MessageFirst(ctl.err)), trace)
        ELSE Outcome(Return("False"), trace)

is_tor_running(cfg, debug, ctl) ==
    LET trace == CtlSession(cfg, CtlCheckSteps, ctl.failAt)
    IN  IF ctl.failAt = "none" THEN Outcome(Return("True"), trace)
        ELSE IF debug THEN Outcome(Raise(Classify(ctl.err)), trace)
        ELSE Outcome(Return("False"), trace)

---------------------------------------------------------------------------
(* TorManager.verify_tor_connection                                        *)

\* The SOCKS probe: socket(), settimeout(5), connect_ex, close.
SocksProbe(cfg, socks) ==
    IF socks = "raise"
    THEN Outcome(Return("False"), <<SockConnectEv(cfg, SocksProbeTimeout, FALSE)>>)
    ELSE Outcome(Return(IF socks = "up" THEN "True" ELSE "False"),
                 <<SockConnectEv(cfg, SocksProbeTimeout, socks = "up"), SockEv("socks_close", TRUE)>>)

\* Faulty variant: the SOCKS port is probed whatever the control check returned.
verify_tor_connection_ProbesAlways(cfg, debug, ctl, socks) ==
    LET running == is_tor_running(cfg, debug, ctl)
        probe == SocksProbe(cfg, socks)
    IN  IF running.res.raised THEN running
        ELSE IF running.res.val # "True"
             THEN Outcome(Return("False"), running.trace \o probe.trace)
        ELSE Outcome(probe.res, running.trace \o probe.trace)

\* Faulty variant: a failed control check is repeated while retry_attempts allows.
verify_tor_connection_Retries(cfg, debug, ctl, socks) ==
    LET running == is_tor_running(cfg, debug, ctl)
        probe == SocksProbe(cfg, socks)
    IN  IF running.res.raised THEN running
        ELSE IF running.res.val # "True"
             THEN Outcome(Return("False"),
                          IF cfg.retry_attempts > 0 THEN running.trace \o running.trace
                          ELSE running.trace)
        ELSE Outcome(probe.res, running.trace \o probe.trace)

verify_tor_connection(cfg, debug, ctl, socks) ==
    LET running == is_tor_running(cfg, debug, ctl)
        probe == SocksProbe(cfg, socks)
    IN  IF running.res.raised THEN running
        ELSE IF running.res.val # "True" THEN Outcome(Return("False"), running.trace)
        ELSE Outcome(probe.res, running.trace \o probe.trace)

---------------------------------------------------------------------------
(* State transformers: [res, trace, enabled, app] after a call             *)

Effect(out, enabled, app) ==
    [res |-> out.res, trace |-> out.trace, enabled |-> enabled, app |-> app]

\* Faulty variant: the result of the verification is ignored.
enable_tor_IgnoresVerification(cfg, debug, prx, enabled, app, ctl, socks, pf) ==
    LET v == verify_tor_connection(cfg, debug, ctl, socks)
    IN  IF v.res.raised THEN Effect(v, enabled, app)
        ELSE Effect(Outcome(Return("True"), v.trace \o <<SetAppProxyEv(prx, TRUE)>>), TRUE, prx)

\* Faulty variant: a failed verification resets the manager as disable_tor does.
enable_tor_ClearsOnFailure(cfg, debug, prx, enabled, app, ctl, socks, pf) ==
    LET v == verify_tor_connection(cfg, debug, ctl, socks)
    IN  IF v.res.raised THEN Effect(v, enabled, app)
        ELSE IF v.res.val # "True"
             THEN Effect(Outcome(Return("False"), v.trace \o <<SetAppProxyEv(NoProxyDesc, TRUE)>>),
                         FALSE, NoProxyDesc)
        ELSE Effect(Outcome(Return("True"), v.trace \o <<SetAppProxyEv(prx, TRUE)>>), TRUE, prx)

\* Faulty variant: an Enabled manager answers true without verifying again.
enable_tor_ShortCircuit(cfg, debug, prx, enabled, app, ctl, socks, pf) ==
    LET v == verify_tor_connection(cfg, debug, ctl, socks)
    IN  IF enabled THEN Effect(Outcome(Return("True"), <<>>), enabled, app)
        ELSE IF v.res.raised THEN Effect(v, enabled, app)
        ELSE IF v.res.val # "True" THEN Effect(Outcome(Return("False"), v.trace), enabled, app)
        ELSE Effect(Outcome(Return("True"), v.trace \o <<SetAppProxyEv(prx, TRUE)>>), TRUE, prx)

\* Faulty variant: the write is skipped when a SOCKS5 proxy is already the
\* application proxy.
enable_tor_SkipsWhenProxied(cfg, debug, prx, enabled, app, ctl, socks, pf) ==
    LET v == verify_tor_connection(cfg, debug, ctl, socks)
    IN  IF v.res.raised THEN Effect(v, enabled, app)
        ELSE IF v.res.val # "True" THEN Effect(Outcome(Return("False"), v.trace), enabled, app)
        ELSE IF app.kind = "Socks5Proxy" THEN Effect(Outcome(Return("True"), v.trace), TRUE, app)
        ELSE IF pf
             THEN Effect(Outcome(IF debug THEN Raise("TorProxyError") ELSE Return("False"),
                                 v.trace \o <<SetAppProxyEv(prx, FALSE)>>),
                         enabled, app)
             ELSE Effect(Outcome(Return("True"), v.trace \o <<SetAppProxyEv(prx, TRUE)>>),
                         TRUE, prx)

\* enable_tor: pf is TRUE when QNetworkProxy.setApplicationProxy raises.
enable_tor(cfg, debug, prx, enabled, app, ctl, socks, pf) ==
    LET v == verify_tor_connection(cfg, debug, ctl, socks)
    IN  IF v.res.raised THEN Effect(v, enabled, app)
        ELSE IF v.res.val # "True" THEN Effect(Outcome(Return("False"), v.trace), enabled, app)
        ELSE IF pf
             THEN Effect(Outcome(IF debug THEN Raise("TorProxyError") ELSE Return("False"),
                                 v.trace \o <<SetAppProxyEv(prx, FALSE)>>),
                         enabled, app)
             ELSE Effect(Outcome(Return("True"), v.trace \o <<SetAppProxyEv(prx, TRUE)>>),
                         TRUE, prx)

\* Faulty variant: the application proxy is cleared and tor_enabled is left as it was.
disable_tor_KeepsFlag(debug, enabled, app, pf) ==
    Effect(Outcome(Return("True"), <<SetAppProxyEv(NoProxyDesc, TRUE)>>), enabled, NoProxyDesc)

\* Faulty variant: a Disabled manager returns at once.
disable_tor_Guarded(debug, enabled, app, pf) ==
    IF ~enabled THEN Effect(Outcome(Return("True"), <<>>), enabled, app)
    ELSE Effect(Outcome(Return("True"), <<SetAppProxyEv(NoProxyDesc, TRUE)>>), FALSE, NoProxyDesc)

\* Faulty variant: a raising setApplicationProxy is swallowed.
disable_tor_Swallows(debug, enabled, app, pf) ==
    IF pf
    THEN Effect(Outcome(Return("True"), <<SetAppProxyEv(NoProxyDesc, FALSE)>>), enabled, app)
    ELSE Effect(Outcome(Return("True"), <<SetAppProxyEv(NoProxyDesc, TRUE)>>),
                FALSE, NoProxyDesc)

\* disable_tor
disable_tor(debug, enabled, app, pf) ==
    IF pf
    THEN Effect(Outcome(IF debug THEN Raise("TorProxyError") ELSE Return("False"),
                        <<SetAppProxyEv(NoProxyDesc, FALSE)>>),
                enabled, app)
    ELSE Effect(Outcome(Return("True"), <<SetAppProxyEv(NoProxyDesc, TRUE)>>),
                FALSE, NoProxyDesc)

\* Faulty variant: the tor_enabled guard is missing.
get_new_identity_NoGuard(cfg, debug, enabled, ctl) ==
    LET trace == CtlSession(cfg, CtlSignalSteps, ctl.failAt)
    IN  IF ctl.failAt = "none" THEN Outcome(Return("True"), trace)
        ELSE IF debug THEN Outcome(Raise("TorConnectionError"), trace)
        ELSE Outcome(Return("False"), trace)

\* Faulty variant: the signal is sent without authenticating.
get_new_identity_NoAuth(cfg, debug, enabled, ctl) ==
    IF ~enabled THEN Outcome(Return("False"), <<>>)
    ELSE LET f == IF ctl.failAt = "authenticate" THEN "none" ELSE ctl.failAt
             trace == CtlSession(cfg, <<"connect", "signal", "close">>, f)
         IN  IF f = "none" THEN Outcome(Return("True"), trace)
             ELSE IF debug THEN Outcome(Raise("TorConnectionError"), trace)
             ELSE Outcome(Return("False"), trace)

\* get_new_identity
get_new_identity(cfg, debug, enabled, ctl) ==
    IF ~enabled THEN Outcome(Return("False"), <<>>)
    ELSE LET trace == CtlSession(cfg, CtlSignalSteps, ctl.failAt)
         IN  IF ctl.failAt = "none" THEN Outcome(Return("True"), trace)
             ELSE IF debug THEN Outcome(Raise("TorConnectionError"), trace)
             ELSE Outcome(Return("False"), trace)

\* The calls of get_current_ip on its socket: connect, sendall, recv, close,
\* up to and including the one that raises (decode raises after recv).
IpSession(cfg, failAt) ==
    LET c(ok) == SockConnectEv(cfg, cfg.timeout, ok)
    IN  CASE failAt = "connect" -> <<c(FALSE)>>
          [] failAt = "sendall" -> <<c(TRUE), SockEv("socks_sendall", FALSE)>>
          [] failAt = "recv" -> <<c(TRUE), SockEv("socks_sendall", TRUE), SockEv("socks_recv", FALSE)>>
          [] failAt = "decode" -> <<c(TRUE), SockEv("socks_sendall", TRUE), SockEv("socks_recv", TRUE)>>
          [] OTHER -> <<c(TRUE), SockEv("socks_sendall", TRUE), SockEv("socks_recv", TRUE),
                        SockEv("socks_close", TRUE)>>

\* Faulty variant: the except clauses are missing.
get_current_ip_Unguarded(cfg, enabled, ip) ==
    IF ~enabled THEN Outcome(Return("None"), <<>>)
    ELSE IF ip.failAt # "none" THEN Outcome(Raise(ip.kind), IpSession(cfg, ip.failAt))
    ELSE IF Contains(ip.resp, "IP") THEN Outcome(ReturnText(ip.resp), IpSession(cfg, "none"))
    ELSE Outcome(Return("None"), IpSession(cfg, "none"))

\* get_current_ip
get_current_ip(cfg, enabled, ip) ==
    IF ~enabled THEN Outcome(Return("None"), <<>>)
    ELSE IF ip.failAt # "none" THEN Outcome(Return("None"), IpSession(cfg, ip.failAt))
    ELSE IF Contains(ip.resp, "IP") THEN Outcome(ReturnText(ip.resp), IpSession(cfg, "none"))
    ELSE Outcome(Return("None"), IpSession(cfg, "none"))

---------------------------------------------------------------------------
(* What each method writes to the logger                                   *)

LogLine(level, msg) == [level |-> level, msg |-> msg]

\* The logger call of each except clause of is_tor_running.
ClassLog(class) ==
    CASE class = "TorNotRunningError" -> LogLine("warning", "Tor no esta disponible en el puerto")
      [] class = "TorAuthenticationError" -> LogLine("error", "Error de autenticacion con Tor")
      [] class = "TorConnectionError" -> LogLine("error", "Error inesperado al verificar Tor")

is_tor_running_log(ctl) ==
    IF ctl.failAt = "none"
    THEN <<LogLine("debug", "Tor esta ejecutandose correctamente")>>
    ELSE <<ClassLog(Classify(ctl.err))>>

verify_tor_connection_log(ctl, socks) ==
    IF ctl.failAt # "none" THEN is_tor_running_log(ctl)
    ELSE is_tor_running_log(ctl) \o
         << CASE socks = "up" -> LogLine("debug", "Proxy SOCKS5 verificado")
              [] socks = "down" -> LogLine("warning", "Proxy SOCKS5 no disponible")
              [] socks = "raise" -> LogLine("error", "Error al verificar proxy SOCKS5") >>

enable_tor_log(cfg, debug, ctl, socks, pf) ==
    LET v == verify_tor_connection(cfg, debug, ctl, socks)
        vlog == verify_tor_connection_log(ctl, socks)
    IN  IF v.res.raised THEN vlog
        ELSE IF v.res.val # "True"
             THEN vlog \o <<LogLine("warning", "Tor no esta disponible. Por favor, inicia el servicio Tor.")>>
        ELSE IF pf THEN vlog \o <<LogLine("error", "Error al habilitar Tor")>>
        ELSE vlog \o <<LogLine("info", "Tor habilitado - Proxy SOCKS5 configurado")>>

disable_tor_log(pf) ==
    IF pf THEN <<LogLine("error", "Error al deshabilitar Tor")>>
    ELSE <<LogLine("info", "Tor deshabilitado")>>

get_new_identity_log(enabled, ctl) ==
    IF ~enabled
    THEN <<LogLine("warning", "No se puede solicitar nueva identidad: Tor no esta habilitado")>>
    ELSE IF ctl.failAt = "none" THEN <<LogLine("info", "Nueva identidad de Tor solicitada")>>
    ELSE <<LogLine("error", "Error al solicitar nueva identidad")>>

get_current_ip_log(enabled, ip) ==
    IF ~enabled THEN <<LogLine("warning", "No se puede obtener IP: Tor no esta habilitado")>>
    ELSE IF ip.failAt # "none"
         THEN IF ip.kind = "socket.timeout" THEN <<LogLine("error", "Timeout al obtener IP")>>
              ELSE <<LogLine("error", "Error al obtener IP")>>
    ELSE IF Contains(ip.resp, "IP") THEN <<LogLine("debug", "IP obtenida a traves de Tor")>>
    ELSE <<LogLine("warning", "No se pudo extraer IP de la respuesta")>>

\* The log of a call of method op.
MethodLog(op, cfg, debug, enabled, ctl, socks, ip, pf) ==
    CASE op = "is_tor_running" -> is_tor_running_log(ctl)
      [] op = "verify_tor_connection" -> verify_tor_connection_log(ctl, socks)
      [] op = "enable_tor" -> enable_tor_log(cfg, debug, ctl, socks, pf)
      [] op = "disable_tor" -> disable_tor_log(pf)
      [] op = "get_new_identity" -> get_new_identity_log(enabled, ctl)
      [] op = "get_current_ip" -> get_current_ip_log(enabled, ip)
      [] OTHER -> <<>>

---------------------------------------------------------------------------
(* The state machine                                                       *)

Observation(op, ctl, socks, ip, pf, res, trace) ==
    [op |-> op, ctl |-> ctl, socks |-> socks, ip |-> ip, pf |-> pf,
     res |-> res, trace |-> trace,
     log |-> MethodLog(op, tor_config, debug_mode, tor_enabled, ctl, socks, ip, pf),
     pre_enabled |-> tor_enabled, pre_app |-> appProxy]

\* TorManager(tor_config, debug_mode) in a process that set no proxy yet.
InitManager(configs) ==
    /\ tor_config \in configs
    /\ debug_mode \in BOOLEAN
    /\ proxy = ManagerProxy(tor_config)
    /\ tor_enabled = FALSE
    /\ appProxy \in InitialAppProxies
    /\ last = [op |-> "__init__", ctl |-> NoCtl, socks |-> NoSocks, ip |-> NoIp, pf |-> FALSE,
               res |-> Return("None"), trace |-> <<>>,
               log |-> <<LogLine("debug", "TorManager inicializado")>>,
               pre_enabled |-> FALSE, pre_app |-> appProxy]
    /\ ui = [checked |-> FALSE, alive |-> TRUE]
    /\ twin = [tor_enabled |-> FALSE, appProxy |-> appProxy,
               res |-> Return("None"), log |-> last.log]

\* The callers of a manager that is called from more than one thread.
Callers == {"caller1", "caller2"}
IdleCall == [op |-> "-", pc |-> "idle", res |-> Return("None")]

\* No second manager has been constructed.
NoManager == [exists |-> FALSE, tor_config |-> DefaultTorConfig,
              proxy |-> ManagerProxy(DefaultTorConfig), tor_enabled |-> FALSE]

\* BrowserEngine.__init__: both permissions blocked.
NewEngineFlags == [camera_enabled |-> FALSE, microphone_enabled |-> FALSE]

NoRequest == [tab |-> 0, feature |-> "-", decisions |-> <<>>]

\* BrowserWindow.__init__: both toggles unchecked, then the first tab, which
\* is given the state of the toggles.  `op` is the last handler run, `pre`
\* the tabs before it, `request` the permission request it served.
NewWindow ==
    [tabs |-> <<NewEngineFlags>>, camera_toggle |-> FALSE, microphone_toggle |-> FALSE,
     op |-> "__init__", request |-> NoRequest, pre |-> <<>>]

\* A QUrl, by scheme and host; NoUrl stands for None.
Url(scheme, host) == [scheme |-> scheme, host |-> host]
NoUrl == Url("", "")

\* The URLs a page goes through: a site over http and over https, an http
\* URL without host, and about:blank.
Urls == {Url("http", "site"), Url("https", "site"), Url("http", ""), Url("about", "")}

\* BrowserEngine.__init__: the redirect counter and the last redirected URL.
\* `redirects` counts the setUrl calls made for each URL, `events` the
\* urlChanged signals handled, `redirected` whether the last one redirected,
\* `loop` whether the signals so far are those of a redirect loop.
NewEngine ==
    [https_redirect_count |-> 0, last_redirect_url |-> NoUrl,
     redirects |-> [u \in Urls |-> 0], events |-> 0, event |-> NoUrl, redirected |-> FALSE,
     loop |-> TRUE]

\* The part of the process a specification does not exercise.
InitCalls == calls = [t \in Callers |-> IdleCall]
InitSecond == second = NoManager
InitWindow == window = NewWindow
InitEngine == engine = NewEngine

InitWith(configs) ==
    /\ InitManager(configs)
    /\ InitCalls
    /\ InitSecond
    /\ InitWindow
    /\ InitEngine

Init == InitWith(TorConfigs)

\* What no method of the manager assigns.
Elsewhere == <<calls, second, window, engine>>

Unchanged == UNCHANGED <<tor_config, debug_mode, proxy, ui, twin, Elsewhere>>

IsTorRunning ==
    \E ctl \in CtlEnvs(CtlCheckSteps) :
        LET o == is_tor_running(tor_config, debug_mode, ctl)
        IN  /\ last' = Observation("is_tor_running", ctl, NoSocks, NoIp, FALSE, o.res, o.trace)
            /\ UNCHANGED <<tor_enabled, appProxy>>
            /\ Unchanged

GetProxy ==
    /\ last' = Observation("get_proxy", NoCtl, NoSocks, NoIp, FALSE, Return("self.proxy"), <<>>)
    /\ UNCHANGED <<tor_enabled, appProxy>>
    /\ Unchanged

VerifyTorConnection ==
    \E ctl \in CtlEnvs(CtlCheckSteps), socks \in SocksEnvs :
        LET o == verify_tor_connection(tor_config, debug_mode, ctl, socks)
        IN  /\ last' = Observation("verify_tor_connection", ctl, socks, NoIp, FALSE, o.res, o.trace)
            /\ UNCHANGED <<tor_enabled, appProxy>>
            /\ Unchanged

EnableTor(faults) ==
    \E ctl \in CtlEnvs(CtlCheckSteps), socks \in SocksEnvs, pf \in faults :
        LET e == enable_tor(tor_config, debug_mode, proxy, tor_enabled, appProxy, ctl, socks, pf)
        IN  /\ last' = Observation("enable_tor", ctl, socks, NoIp, pf, e.res, e.trace)
            /\ tor_enabled' = e.enabled
            /\ appProxy' = e.app
            /\ Unchanged

DisableTor(faults) ==
    \E pf \in faults :
        LET e == disable_tor(debug_mode, tor_enabled, appProxy, pf)
        IN  /\ last' = Observation("disable_tor", NoCtl, NoSocks, NoIp, pf, e.res, e.trace)
            /\ tor_enabled' = e.enabled
            /\ appProxy' = e.app
            /\ Unchanged

\* Faulty variant: a failed rotation switches Tor off.
GetNewIdentity_DisablesOnFailure ==
    \E ctl \in CtlEnvs(CtlSignalSteps) :
        LET o == get_new_identity(tor_config, debug_mode, tor_enabled, ctl)
        IN  /\ last' = Observation("get_new_identity", ctl, NoSocks, NoIp, FALSE, o.res, o.trace)
            /\ tor_enabled' = (tor_enabled /\ o.res.val = "True")
            /\ appProxy' = IF o.res.val = "True" THEN appProxy ELSE NoProxyDesc
            /\ Unchanged

GetNewIdentity ==
    \E ctl \in CtlEnvs(CtlSignalSteps) :
        LET o == get_new_identity(tor_config, debug_mode, tor_enabled, ctl)
        IN  /\ last' = Observation("get_new_identity", ctl, NoSocks, NoIp, FALSE, o.res, o.trace)
            /\ UNCHANGED <<tor_enabled, appProxy>>
            /\ Unchanged

\* Faulty variant: a request that fails switches Tor off.
GetCurrentIp_DisablesOnError ==
    \E ip \in IpEnvs :
        LET o == get_current_ip(tor_config, tor_enabled, ip)
        IN  /\ last' = Observation("get_current_ip", NoCtl, NoSocks, ip, FALSE, o.res, o.trace)
            /\ tor_enabled' = (tor_enabled /\ o.res.val # "None")
            /\ appProxy' = IF o.res.val # "None" THEN appProxy ELSE NoProxyDesc
            /\ Unchanged

GetCurrentIp ==
    \E ip \in IpEnvs :
        LET o == get_current_ip(tor_config, tor_enabled, ip)
        IN  /\ last' = Observation("get_current_ip", NoCtl, NoSocks, ip, FALSE, o.res, o.trace)
            /\ UNCHANGED <<tor_enabled, appProxy>>
            /\ Unchanged

\* QNetworkProxy.setApplicationProxy as Qt provides it: it does not raise.
NoProxyFault == {FALSE}

Next ==
    \/ IsTorRunning
    \/ GetProxy
    \/ VerifyTorConnection
    \/ EnableTor(NoProxyFault)
    \/ DisableTor(NoProxyFault)
    \/ GetNewIdentity
    \/ GetCurrentIp

Spec == Init /\ [][Next]_vars

\* Fault injection: setApplicationProxy may raise, before it changes anything
\* (the case the except clauses of enable_tor and disable_tor handle).
ProxyFaults == BOOLEAN

NextProxyFault ==
    \/ IsTorRunning
    \/ GetProxy
    \/ VerifyTorConnection
    \/ EnableTor(ProxyFaults)
    \/ DisableTor(ProxyFaults)
    \/ GetNewIdentity
    \/ GetCurrentIp

SpecProxyFault == Init /\ [][NextProxyFault]_vars

\* Managers constructed with any TorConfig the dataclass accepts.  No
\* connection to a port above 65535 can be established: such a control
\* session fails at connect.
InitAnyConfig == InitWith(TorConfigs \cup OutOfRangeTorConfigs)

ControlSessionPossible(cfg, ctl) ==
    ~IsPort(cfg.control_port) => ctl.failAt \in {"connect", "-"}

NextAnyConfig ==
    \/ IsTorRunning /\ ControlSessionPossible(tor_config, last'.ctl)
    \/ GetProxy
    \/ VerifyTorConnection /\ ControlSessionPossible(tor_config, last'.ctl)
    \/ EnableTor(NoProxyFault) /\ ControlSessionPossible(tor_config, last'.ctl)
    \/ DisableTor(NoProxyFault)
    \/ GetNewIdentity /\ ControlSessionPossible(tor_config, last'.ctl)
    \/ GetCurrentIp

SpecAnyConfig == InitAnyConfig /\ [][NextAnyConfig]_vars

---------------------------------------------------------------------------
(* BrowserWindow: the Tor toggle button and the handlers that call the     *)
(* manager                                                                 *)

\* An exception that leaves a slot reaches no handler of the program:
\* PyQt either reports it and returns to the event loop (TRUE) or aborts
\* the process (FALSE).
SlotSurvives == BOOLEAN

Button(checked, alive) == [checked |-> checked, alive |-> alive]

\* toggle_tor(checked): the slot of tor_toggle.clicked.  The button already
\* shows `checked` when the slot runs; setChecked(False) is called only on
\* the branch where enable_tor returned False.
toggle_tor(checked, cfg, debug, prx, enabled, app, ctl, socks, survives) ==
    IF checked
    THEN LET e == enable_tor(cfg, debug, prx, enabled, app, ctl, socks, FALSE)
         IN  [call |-> e,
              ui |-> IF e.res.raised THEN Button(TRUE, survives)
                     ELSE IF e.res.val = "True" THEN Button(TRUE, TRUE)
                     ELSE Button(FALSE, TRUE)]
    ELSE LET d == disable_tor(debug, enabled, app, FALSE)
         IN  [call |-> d,
              ui |-> Button(FALSE, IF d.res.raised THEN survives ELSE TRUE)]

\* The user clicks the Tor button: Qt flips its checked state and emits
\* clicked(checked).
ToggleTor ==
    /\ ui.alive
    /\ \E ctl \in CtlEnvs(CtlCheckSteps), socks \in SocksEnvs, survives \in SlotSurvives :
        LET checked == ~ui.checked
            t == toggle_tor(checked, tor_config, debug_mode, proxy, tor_enabled,
                            appProxy, ctl, socks, survives)
            method == IF checked THEN "enable_tor" ELSE "disable_tor"
            handler == IF checked THEN "toggle_tor(True)" ELSE "toggle_tor(False)"
        IN  /\ last' = [Observation(method, ctl, socks, NoIp, FALSE, t.call.res, t.call.trace)
                            EXCEPT !.op = handler]
            /\ tor_enabled' = t.call.enabled
            /\ appProxy' = t.call.app
            /\ ui' = t.ui
            /\ UNCHANGED <<tor_config, debug_mode, proxy, twin, Elsewhere>>

\* new_tor_identity(): the slot of the "new identity" action.
NewTorIdentity ==
    /\ ui.alive
    /\ \E ctl \in CtlEnvs(CtlSignalSteps), survives \in SlotSurvives :
        LET o == get_new_identity(tor_config, debug_mode, tor_enabled, ctl)
        IN  /\ last' = [Observation("get_new_identity", ctl, NoSocks, NoIp, FALSE, o.res, o.trace)
                            EXCEPT !.op = "new_tor_identity"]
            /\ ui' = Button(ui.checked, IF o.res.raised THEN survives ELSE TRUE)
            /\ UNCHANGED <<tor_enabled, appProxy, tor_config, debug_mode, proxy, twin, Elsewhere>>

NextUI ==
    \/ ToggleTor
    \/ NewTorIdentity

SpecUI == Init /\ [][NextUI]_vars

---------------------------------------------------------------------------
(* Two runs side by side: the manager, and the same manager constructed    *)
(* with the other debug_mode, given the same calls and the same answers    *)
(* of the environment.  Each run has its own process, hence its own        *)
(* application proxy.                                                      *)

\* The call of method op on a manager in state (enabled, app), for the
\* methods that read debug_mode.
Call(op, cfg, debug, prx, enabled, app, ctl, socks, ip, pf) ==
    CASE op = "is_tor_running" -> Effect(is_tor_running(cfg, debug, ctl), enabled, app)
      [] op = "verify_tor_connection" ->
            Effect(verify_tor_connection(cfg, debug, ctl, socks), enabled, app)
      [] op = "enable_tor" -> enable_tor(cfg, debug, prx, enabled, app, ctl, socks, pf)
      [] op = "disable_tor" -> disable_tor(debug, enabled, app, pf)
      [] op = "get_new_identity" -> Effect(get_new_identity(cfg, debug, enabled, ctl), enabled, app)

\* The other run makes the call op: its state, result and log after it.
TwinCall(op, ctl, socks, ip, pf) ==
    LET b == Call(op, tor_config, ~debug_mode, proxy, twin.tor_enabled, twin.appProxy,
                  ctl, socks, ip, pf)
    IN  [tor_enabled |-> b.enabled, appProxy |-> b.app, res |-> b.res,
         log |-> MethodLog(op, tor_config, ~debug_mode, twin.tor_enabled, ctl, socks, ip, pf)]

PairUnchanged == UNCHANGED <<tor_config, debug_mode, proxy, ui, Elsewhere>>

PairIsTorRunning ==
    \E ctl \in CtlEnvs(CtlCheckSteps) :
        LET a == Call("is_tor_running", tor_config, debug_mode, proxy, tor_enabled, appProxy,
                      ctl, NoSocks, NoIp, FALSE)
            b == TwinCall("is_tor_running", ctl, NoSocks, NoIp, FALSE)
        IN  /\ last' = Observation("is_tor_running", ctl, NoSocks, NoIp, FALSE, a.res, a.trace)
            /\ tor_enabled' = a.enabled
            /\ appProxy' = a.app
            /\ twin' = b
            /\ PairUnchanged

PairVerifyTorConnection ==
    \E ctl \in CtlEnvs(CtlCheckSteps), socks \in SocksEnvs :
        LET a == Call("verify_tor_connection", tor_config, debug_mode, proxy, tor_enabled, appProxy,
                      ctl, socks, NoIp, FALSE)
            b == TwinCall("verify_tor_connection", ctl, socks, NoIp, FALSE)
        IN  /\ last' = Observation("verify_tor_connection", ctl, socks, NoIp, FALSE, a.res, a.trace)
            /\ tor_enabled' = a.enabled
            /\ appProxy' = a.app
            /\ twin' = b
            /\ PairUnchanged

PairEnableTor ==
    \E ctl \in CtlEnvs(CtlCheckSteps), socks \in SocksEnvs, pf \in ProxyFaults :
        LET a == Call("enable_tor", tor_config, debug_mode, proxy, tor_enabled, appProxy,
                      ctl, socks, NoIp, pf)
            b == TwinCall("enable_tor", ctl, socks, NoIp, pf)
        IN  /\ last' = Observation("enable_tor", ctl, socks, NoIp, pf, a.res, a.trace)
            /\ tor_enabled' = a.enabled
            /\ appProxy' = a.app
            /\ twin' = b
            /\ PairUnchanged

PairDisableTor ==
    \E pf \in ProxyFaults :
        LET a == Call("disable_tor", tor_config, debug_mode, proxy, tor_enabled, appProxy,
                      NoCtl, NoSocks, NoIp, pf)
            b == TwinCall("disable_tor", NoCtl, NoSocks, NoIp, pf)
        IN  /\ last' = Observation("disable_tor", NoCtl, NoSocks, NoIp, pf, a.res, a.trace)
            /\ tor_enabled' = a.enabled
            /\ appProxy' = a.app
            /\ twin' = b
            /\ PairUnchanged

PairGetNewIdentity ==
    \E ctl \in CtlEnvs(CtlSignalSteps) :
        LET a == Call("get_new_identity", tor_config, debug_mode, proxy, tor_enabled, appProxy,
                      ctl, NoSocks, NoIp, FALSE)
            b == TwinCall("get_new_identity", ctl, NoSocks, NoIp, FALSE)
        IN  /\ last' = Observation("get_new_identity", ctl, NoSocks, NoIp, FALSE, a.res, a.trace)
            /\ tor_enabled' = a.enabled
            /\ appProxy' = a.app
            /\ twin' = b
            /\ PairUnchanged

NextPair ==
    \/ PairIsTorRunning
    \/ PairVerifyTorConnection
    \/ PairEnableTor
    \/ PairDisableTor
    \/ PairGetNewIdentity

\* The pair is constructed with the default configuration; the manager is
\* the debug one of the two, its twin the other.
InitPair == InitWith({DefaultTorConfig}) /\ debug_mode

SpecPair == InitPair /\ [][NextPair]_vars

---------------------------------------------------------------------------
(* enable_tor and disable_tor called on one manager from two threads.      *)
(* Python may switch threads between any two statements: the write of the  *)
(* application proxy and the assignment of tor_enabled are separate steps, *)
(* and no step waits for a lock.                                           *)

RaceOps == {"enable_tor", "disable_tor"}

RaceUnchanged == UNCHANGED <<tor_config, debug_mode, proxy, last, ui, twin, second, window, engine>>

\* A caller enters enable_tor or disable_tor.
RaceCall(t) ==
    /\ calls[t].pc \in {"idle", "returned"}
    /\ \E op \in RaceOps :
        calls' = [calls EXCEPT ![t] = [op |-> op,
                                       pc |-> IF op = "enable_tor" THEN "verify" ELSE "write_proxy",
                                       res |-> Return("None")]]
    /\ UNCHANGED <<tor_enabled, appProxy>>
    /\ RaceUnchanged

\* enable_tor: `if not self.verify_tor_connection(): return False`.
RaceVerify(t) ==
    /\ calls[t].pc = "verify"
    /\ \E ctl \in CtlEnvs(CtlCheckSteps), socks \in SocksEnvs :
        LET v == verify_tor_connection(tor_config, debug_mode, ctl, socks)
        IN  calls' = [calls EXCEPT ![t] =
                        IF v.res = Return("True") THEN [@ EXCEPT !.pc = "write_proxy"]
                        ELSE [@ EXCEPT !.pc = "returned", !.res = v.res]]
    /\ UNCHANGED <<tor_enabled, appProxy>>
    /\ RaceUnchanged

\* Faulty variant: the two writes are made under a lock of the manager.
RaceWriteProxy_Locked(t) ==
    /\ calls[t].pc = "write_proxy"
    /\ \A u \in Callers \ {t} : calls[u].pc # "write_flag"
    /\ appProxy' = IF calls[t].op = "enable_tor" THEN proxy ELSE NoProxyDesc
    /\ calls' = [calls EXCEPT ![t].pc = "write_flag"]
    /\ UNCHANGED tor_enabled
    /\ RaceUnchanged

\* QNetworkProxy.setApplicationProxy(...) of enable_tor or of disable_tor.
RaceWriteProxy(t) ==
    /\ calls[t].pc = "write_proxy"
    /\ appProxy' = IF calls[t].op = "enable_tor" THEN proxy ELSE NoProxyDesc
    /\ calls' = [calls EXCEPT ![t].pc = "write_flag"]
    /\ UNCHANGED tor_enabled
    /\ RaceUnchanged

\* `self.tor_enabled = True` (or False), then `return True`.
RaceWriteFlag(t) ==
    /\ calls[t].pc = "write_flag"
    /\ tor_enabled' = (calls[t].op = "enable_tor")
    /\ calls' = [calls EXCEPT ![t] = [@ EXCEPT !.pc = "returned", !.res = Return("True")]]
    /\ UNCHANGED appProxy
    /\ RaceUnchanged

NextRace ==
    \E t \in Callers :
        \/ RaceCall(t)
        \/ RaceVerify(t)
        \/ RaceWriteProxy(t)
        \/ RaceWriteFlag(t)

SpecRace == Init /\ [][NextRace]_vars

---------------------------------------------------------------------------
(* Two TorManager instances in one process.  Each has its own tor_config,  *)
(* proxy and tor_enabled; QNetworkProxy.setApplicationProxy writes the one *)
(* application proxy of the process.  Both are constructed with the        *)
(* debug_mode of the global configuration and are called one at a time.    *)

\* TorManager(cfg): the second instance.
NewManager(cfg) ==
    [exists |-> TRUE, tor_config |-> cfg, proxy |-> ManagerProxy(cfg), tor_enabled |-> FALSE]

\* The first manager has the default configuration; the second has the
\* same one, or one with another SOCKS port.
InitTwoManagers ==
    /\ InitManager({DefaultTorConfig})
    /\ second \in {NewManager(cfg) : cfg \in {c \in TorConfigs : c.host = DefaultTorConfig.host}}
    /\ InitCalls
    /\ InitWindow
    /\ InitEngine

SecondUnchanged == UNCHANGED <<tor_config, debug_mode, proxy, tor_enabled, ui, twin,
                               calls, window, engine>>

\* enable_tor() on the second manager.
SecondEnableTor ==
    \E ctl \in CtlEnvs(CtlCheckSteps), socks \in SocksEnvs :
        LET e == enable_tor(second.tor_config, debug_mode, second.proxy, second.tor_enabled,
                            appProxy, ctl, socks, FALSE)
        IN  /\ last' = [Observation("enable_tor", ctl, socks, NoIp, FALSE, e.res, e.trace)
                            EXCEPT !.op = "second.enable_tor", !.pre_enabled = second.tor_enabled]
            /\ second' = [second EXCEPT !.tor_enabled = e.enabled]
            /\ appProxy' = e.app
            /\ SecondUnchanged

\* disable_tor() on the second manager.
SecondDisableTor ==
    LET e == disable_tor(debug_mode, second.tor_enabled, appProxy, FALSE)
    IN  /\ last' = [Observation("disable_tor", NoCtl, NoSocks, NoIp, FALSE, e.res, e.trace)
                        EXCEPT !.op = "second.disable_tor", !.pre_enabled = second.tor_enabled]
        /\ second' = [second EXCEPT !.tor_enabled = e.enabled]
        /\ appProxy' = e.app
        /\ SecondUnchanged

NextTwoManagers ==
    \/ EnableTor(NoProxyFault)
    \/ DisableTor(NoProxyFault)
    \/ SecondEnableTor
    \/ SecondDisableTor

SpecTwoManagers == InitTwoManagers /\ [][NextTwoManagers]_vars

---------------------------------------------------------------------------
(* BrowserEngine.force_https_redirect, the slot of page.urlChanged         *)

\* The number of urlChanged signals followed.
MaxUrlChanged == 10

\* force_https_redirect(url): the counter and the last redirected URL after
\* the call, and whether setUrl(https) was called.
force_https_redirect(count, last_url, url) ==
    IF url.scheme = "http" /\ url.host # ""
    THEN IF last_url = url
         THEN IF count + 1 > 3
              THEN [count |-> count + 1, last_url |-> last_url, redirect |-> FALSE]
              ELSE [count |-> count + 1, last_url |-> last_url, redirect |-> TRUE]
         ELSE [count |-> 0, last_url |-> url, redirect |-> TRUE]
    ELSE [count |-> 0, last_url |-> NoUrl, redirect |-> FALSE]

\* A redirect loop: the page is at the http URL, the handler sends it to
\* https, the server sends it back to http, and so on.
LoopUrl(n) == IF n % 2 = 0 THEN Url("http", "site") ELSE Url("https", "site")

RedirectUnchanged == UNCHANGED <<tor_config, debug_mode, proxy, tor_enabled, appProxy, last,
                                 ui, twin, calls, second, window>>

\* page.urlChanged(url)
UrlChanged ==
    /\ engine.events < MaxUrlChanged
    /\ \E url \in Urls :
        LET f == force_https_redirect(engine.https_redirect_count, engine.last_redirect_url, url)
        IN  engine' = [https_redirect_count |-> f.count,
                       last_redirect_url |-> f.last_url,
                       redirects |-> IF f.redirect
                                     THEN [engine.redirects EXCEPT ![url] = @ + 1]
                                     ELSE engine.redirects,
                       events |-> engine.events + 1,
                       event |-> url,
                       redirected |-> f.redirect,
                       loop |-> engine.loop /\ url = LoopUrl(engine.events)]
    /\ RedirectUnchanged

NextRedirect == UrlChanged

SpecRedirect == Init /\ [][NextRedirect]_vars

---------------------------------------------------------------------------
(* BrowserWindow: tabs, the camera and microphone toggles, and the         *)
(* permission requests of the pages                                        *)

\* The number of tabs followed.
MaxTabs == 3

\* QWebEnginePage.Feature values a page asks for.
Features ==
    {"MediaAudioCapture", "MediaVideoCapture", "MediaAudioVideoCapture", "FullScreen",
     "Geolocation", "Notifications"}

Granted == "PermissionGrantedByUser"
Denied == "PermissionDeniedByUser"

\* Faulty variant: a feature the handler does not know is granted.
handle_permission_request_GrantsUnknown(flags, feature) ==
    CASE feature = "MediaAudioCapture" ->
            IF flags.microphone_enabled THEN <<Granted>> ELSE <<Denied>>
      [] feature = "MediaVideoCapture" ->
            IF flags.camera_enabled THEN <<Granted>> ELSE <<Denied, Denied>>
      [] feature = "FullScreen" -> <<Granted>>
      [] OTHER -> <<Granted>>

\* handle_permission_request(origin, feature): the setFeaturePermission
\* calls it makes for the request, in order.  The branch that denies the
\* camera makes the call twice.
handle_permission_request(flags, feature) ==
    CASE feature = "MediaAudioCapture" ->
            IF flags.microphone_enabled THEN <<Granted>> ELSE <<Denied>>
      [] feature = "MediaVideoCapture" ->
            IF flags.camera_enabled THEN <<Granted>> ELSE <<Denied, Denied>>
      [] feature = "FullScreen" -> <<Granted>>
      [] OTHER -> <<Denied>>

\* set_camera_enabled / set_microphone_enabled on one engine.
set_camera_enabled(flags, enabled) == [flags EXCEPT !.camera_enabled = enabled]
set_microphone_enabled(flags, enabled) == [flags EXCEPT !.microphone_enabled = enabled]

\* The sequence without its element at position i (QTabWidget.removeTab).
RemoveAt(seq, i) == [j \in 1..(Len(seq) - 1) |-> IF j < i THEN seq[j] ELSE seq[j + 1]]

WindowUnchanged == UNCHANGED <<tor_config, debug_mode, proxy, tor_enabled, appProxy, last,
                               ui, twin, calls, second, engine>>

\* The user clicks the camera button: Qt flips it and toggle_camera(checked)
\* sets the flag of every tab.
ToggleCamera ==
    LET checked == ~window.camera_toggle
    IN  /\ window' = [window EXCEPT
                        !.camera_toggle = checked,
                        !.tabs = [i \in DOMAIN window.tabs |->
                                    set_camera_enabled(window.tabs[i], checked)],
                        !.op = "toggle_camera", !.request = NoRequest, !.pre = window.tabs]
        /\ WindowUnchanged

ToggleMicrophone ==
    LET checked == ~window.microphone_toggle
    IN  /\ window' = [window EXCEPT
                        !.microphone_toggle = checked,
                        !.tabs = [i \in DOMAIN window.tabs |->
                                    set_microphone_enabled(window.tabs[i], checked)],
                        !.op = "toggle_microphone", !.request = NoRequest, !.pre = window.tabs]
        /\ WindowUnchanged

\* Faulty variant: the new tab keeps the flags BrowserEngine.__init__ gave it.
AddNewTab_Defaults ==
    /\ Len(window.tabs) < MaxTabs
    /\ window' = [window EXCEPT !.tabs = Append(@, NewEngineFlags),
                                !.op = "add_new_tab", !.request = NoRequest, !.pre = window.tabs]
    /\ WindowUnchanged

\* add_new_tab(): a new engine, given the state of the two toggles.
AddNewTab ==
    /\ Len(window.tabs) < MaxTabs
    /\ window' = [window EXCEPT
                    !.tabs = Append(@, set_microphone_enabled(
                                            set_camera_enabled(NewEngineFlags, window.camera_toggle),
                                            window.microphone_toggle)),
                    !.op = "add_new_tab", !.request = NoRequest, !.pre = window.tabs]
    /\ WindowUnchanged

\* Faulty variant: the guard on the number of tabs is missing.
CloseTab_Unguarded ==
    /\ \E index \in 1..Len(window.tabs) :
        window' = [window EXCEPT !.tabs = RemoveAt(@, index),
                                 !.op = "close_tab", !.request = NoRequest, !.pre = window.tabs]
    /\ WindowUnchanged

\* close_tab(index), index being a tab of the widget (tabCloseRequested, or
\* Ctrl+W with the current index).
CloseTab ==
    /\ \E index \in 1..Len(window.tabs) :
        window' = [window EXCEPT
                    !.tabs = IF Len(window.tabs) < 2 THEN @ ELSE RemoveAt(@, index),
                    !.op = "close_tab", !.request = NoRequest, !.pre = window.tabs]
    /\ WindowUnchanged

\* clear_all(): every tab loses both permissions, both toggles are unchecked.
ClearAll ==
    /\ window' = [window EXCEPT
                    !.tabs = [i \in DOMAIN window.tabs |->
                                set_microphone_enabled(set_camera_enabled(window.tabs[i], FALSE), FALSE)],
                    !.camera_toggle = FALSE,
                    !.microphone_toggle = FALSE,
                    !.op = "clear_all", !.request = NoRequest, !.pre = window.tabs]
    /\ WindowUnchanged

\* page.featurePermissionRequested(origin, feature) of one tab.
HandlePermissionRequest ==
    /\ \E tab \in DOMAIN window.tabs, feature \in Features :
        window' = [window EXCEPT
                    !.op = "handle_permission_request",
                    !.request = [tab |-> tab, feature |-> feature,
                                 decisions |-> handle_permission_request(window.tabs[tab], feature)],
                    !.pre = window.tabs]
    /\ WindowUnchanged

NextWindow ==
    \/ ToggleCamera
    \/ ToggleMicrophone
    \/ AddNewTab
    \/ CloseTab
    \/ ClearAll
    \/ HandlePermissionRequest

SpecWindow == Init /\ [][NextWindow]_vars

---------------------------------------------------------------------------
(* Vocabulary of the properties                                            *)

HasEv(trace, name) == \E i \in DOMAIN trace : trace[i].ev = name
EvNames(trace) == [i \in DOMAIN trace |-> trace[i].ev]
IsPrefix(a, b) == Len(a) <= Len(b) /\ \A i \in 1..Len(a) : a[i] = b[i]

\* The SOCKS5 descriptor of the manager's configuration, written out.
TorDescriptor ==
    [kind |-> "Socks5Proxy", host |-> tor_config.host, port |-> tor_config.socks_port]

\* The last call met a control port that is up and authenticates, and a
\* SOCKS port that accepts the connection.
TorUp == last.ctl.failAt = "none" /\ last.socks = "up"

ReturnedTrue == last.res = [raised |-> FALSE, val |-> "True", text |-> <<>>]
ReturnedFalse == last.res = [raised |-> FALSE, val |-> "False", text |-> <<>>]

---------------------------------------------------------------------------
\* C1: between operations, tor_enabled holds exactly when the process-wide
\* application proxy is the manager's SOCKS5 descriptor.
C1_EnabledIffProxySet == tor_enabled <=> (appProxy = TorDescriptor)

\* A failed identity request made while Tor is enabled and the proxy is set.
C1_Witness ==
    /\ last.op = "get_new_identity"
    /\ last.pre_enabled
    /\ ~ReturnedTrue
    /\ tor_enabled
    /\ appProxy = TorDescriptor

\* C2: enable_tor writes the application proxy only in a call whose control
\* check returned true and whose SOCKS probe succeeded; in a call where
\* either failed there is no write and the proxy keeps its value.
C2_WriteOnlyAfterBothChecks ==
    last.op = "enable_tor" =>
        /\ HasEv(last.trace, "setApplicationProxy") => TorUp
        /\ ~TorUp => (~HasEv(last.trace, "setApplicationProxy") /\ appProxy = last.pre_app)

\* An enable_tor call that wrote the application proxy.
C2_Witness ==
    /\ last.op = "enable_tor"
    /\ HasEv(last.trace, "setApplicationProxy")
    /\ appProxy # last.pre_app

\* C3: in a verify_tor_connection or enable_tor call the control connection
\* is attempted before any SOCKS connection, and when the control check
\* fails no SOCKS connection is attempted.
C3_ControlGatesSocks ==
    last.op \in {"verify_tor_connection", "enable_tor"} =>
        /\ Len(last.trace) >= 1 /\ last.trace[1].ev = "ctl_connect"
        /\ \A j \in DOMAIN last.trace :
              last.trace[j].ev = "socks_connect" =>
                  \E i \in 1..(j - 1) : last.trace[i].ev = "ctl_connect"
        /\ last.ctl.failAt # "none" => ~HasEv(last.trace, "socks_connect")

\* A verification whose control check fails at authentication: no probe.
C3_Witness ==
    /\ last.op = "verify_tor_connection"
    /\ last.ctl.failAt = "authenticate"
    /\ last.socks = "up"
    /\ ~HasEv(last.trace, "socks_connect")

\* C4: in non-debug mode an enable_tor whose verification fails returns
\* false and leaves tor_enabled and the application proxy as they were;
\* from Disabled the manager stays Disabled.
C4_FailedEnableChangesNothing ==
    (last.op = "enable_tor" /\ ~debug_mode /\ ~TorUp) =>
        /\ ReturnedFalse
        /\ tor_enabled = last.pre_enabled
        /\ appProxy = last.pre_app
        /\ ~last.pre_enabled => ~tor_enabled

\* A failed enable_tor from Disabled with the SOCKS port down.
C4_Witness ==
    /\ last.op = "enable_tor"
    /\ ~debug_mode
    /\ last.ctl.failAt = "none"
    /\ last.socks = "down"
    /\ ~last.pre_enabled
    /\ ReturnedFalse
    /\ ~tor_enabled

\* C5: with the control port up and authenticating and the SOCKS port
\* accepting, enable_tor returns true, sets tor_enabled and sets the
\* application proxy to SOCKS5/host/socks_port of the configuration; the
\* descriptor get_proxy returns is that same descriptor in every state.
C5_EnableSucceeds ==
    /\ proxy = TorDescriptor
    /\ (last.op = "enable_tor" /\ TorUp) =>
          (ReturnedTrue /\ tor_enabled /\ appProxy = TorDescriptor)

\* A successful enable_tor from Disabled, with a configuration that is not
\* the default one.
C5_Witness ==
    /\ last.op = "enable_tor"
    /\ TorUp
    /\ ~last.pre_enabled
    /\ tor_config # DefaultTorConfig
    /\ tor_enabled

\* C6 as stated: enable_tor called while Enabled returns true and leaves
\* tor_enabled and the application proxy set, whatever the environment.
C6_Original ==
    (last.op = "enable_tor" /\ last.pre_enabled) =>
        (ReturnedTrue /\ tor_enabled /\ appProxy = TorDescriptor)

\* C6 (amended): enable_tor called while Enabled leaves tor_enabled true and
\* the application proxy equal to the SOCKS5 descriptor whatever the
\* environment, and returns true exactly when the verification it runs
\* again passes.
C6_ReEnableKeepsState ==
    (last.op = "enable_tor" /\ last.pre_enabled) =>
        /\ tor_enabled
        /\ appProxy = TorDescriptor
        /\ ReturnedTrue <=> TorUp
        /\ (~TorUp /\ ~debug_mode) => ReturnedFalse

\* enable_tor called while Enabled with the control port refusing.
C6_Witness ==
    /\ last.op = "enable_tor"
    /\ last.pre_enabled
    /\ last.ctl.failAt = "connect"
    /\ ~ReturnedTrue
    /\ tor_enabled
    /\ appProxy = TorDescriptor

\* C7: disable_tor, from either state, sets the application proxy to "no
\* proxy", clears tor_enabled and returns true, and its only call on a
\* collaborator is that write: it opens no connection.
C7_DisableUnconditional ==
    last.op = "disable_tor" =>
        /\ ReturnedTrue
        /\ ~tor_enabled
        /\ appProxy = NoProxyDesc
        /\ EvNames(last.trace) = <<"setApplicationProxy">>
        /\ last.trace[1].kind = "NoProxy"

\* disable_tor called when a disable_tor already left the manager Disabled.
C7_Witness ==
    /\ last.op = "disable_tor"
    /\ ~last.pre_enabled
    /\ last.pre_app = NoProxyDesc
    /\ ReturnedTrue

\* C8: get_new_identity called while tor_enabled is false returns false and
\* makes no call on the control client, in debug and non-debug mode alike.
C8_NoRotationWhenDisabled ==
    (last.op = "get_new_identity" /\ ~last.pre_enabled) =>
        (ReturnedFalse /\ last.trace = <<>>)

\* get_new_identity on a Disabled manager in debug mode.
C8_Witness ==
    /\ last.op = "get_new_identity"
    /\ ~last.pre_enabled
    /\ debug_mode
    /\ last.ctl.failAt = "connect"
    /\ ReturnedFalse

\* C9: get_new_identity called while tor_enabled is true opens one control
\* connection and calls connect, authenticate, signal NEWNYM, close in this
\* order, stopping at the step that raises; it returns true only when all
\* four completed, and NEWNYM is sent only after authenticate succeeded.
C9_RotationSequence ==
    (last.op = "get_new_identity" /\ last.pre_enabled) =>
        /\ Len(last.trace) >= 1
        /\ IsPrefix(EvNames(last.trace),
                    <<"ctl_connect", "ctl_authenticate", "ctl_signal_NEWNYM", "ctl_close">>)
        /\ \A i \in 1..(Len(last.trace) - 1) : last.trace[i].ok
        /\ ReturnedTrue <=> (Len(last.trace) = 4 /\ \A i \in 1..4 : last.trace[i].ok)
        /\ \A j \in DOMAIN last.trace :
              last.trace[j].ev = "ctl_signal_NEWNYM" =>
                  \E i \in 1..(j - 1) :
                      last.trace[i].ev = "ctl_authenticate" /\ last.trace[i].ok

\* A rotation that went through all four steps.
C9_Witness ==
    /\ last.op = "get_new_identity"
    /\ last.pre_enabled
    /\ ReturnedTrue
    /\ Len(last.trace) = 4

\* C10: a get_new_identity that fails leaves tor_enabled and the application
\* proxy unchanged, and returns false in non-debug mode; made while Enabled,
\* it leaves tor_enabled true.
C10_FailedRotationChangesNothing ==
    (last.op = "get_new_identity" /\ ~ReturnedTrue) =>
        /\ ~debug_mode => ReturnedFalse
        /\ tor_enabled = last.pre_enabled
        /\ appProxy = last.pre_app
        /\ last.pre_enabled => (tor_enabled /\ appProxy = TorDescriptor)

\* A rotation failing at the signal step, in non-debug mode, while Enabled.
C10_Witness ==
    /\ last.op = "get_new_identity"
    /\ last.pre_enabled
    /\ ~debug_mode
    /\ last.ctl.failAt = "signal"
    /\ ReturnedFalse
    /\ tor_enabled

---------------------------------------------------------------------------
(* Vocabulary of the properties about failures                             *)

ReadOnlyOps ==
    {"is_tor_running", "verify_tor_connection", "get_proxy", "get_new_identity", "get_current_ip"}

ControlCheckOps == {"is_tor_running", "verify_tor_connection", "enable_tor"}

\* The control connection of the last call raised ConnectionRefusedError.
ControlRefused == last.ctl.failAt = "connect" /\ last.ctl.err.cls = "ConnectionRefusedError"

NotRunningLine == [level |-> "warning", msg |-> "Tor no esta disponible en el puerto"]
AuthLine == [level |-> "error", msg |-> "Error de autenticacion con Tor"]
GenericLine == [level |-> "error", msg |-> "Error inesperado al verificar Tor"]

Logged(line) == \E i \in DOMAIN last.log : last.log[i] = line

RaisedClass(cls) == last.res = [raised |-> TRUE, val |-> cls, text |-> <<>>]

\* C11: tor_enabled is false after construction; only enable_tor (to true)
\* and disable_tor (to false) change it; is_tor_running,
\* verify_tor_connection, get_proxy, get_new_identity and get_current_ip
\* leave tor_enabled and the application proxy as they were, whether they
\* return or raise.
C11_OnlyEnableDisableWrite ==
    /\ last.op = "__init__" => ~tor_enabled
    /\ last.op \in ReadOnlyOps => (tor_enabled = last.pre_enabled /\ appProxy = last.pre_app)
    /\ tor_enabled # last.pre_enabled =>
          \/ last.op = "enable_tor" /\ tor_enabled
          \/ last.op = "disable_tor" /\ ~tor_enabled
    /\ appProxy # last.pre_app => last.op \in {"enable_tor", "disable_tor"}

\* A verify_tor_connection that raises on an Enabled manager.
C11_Witness ==
    /\ last.op = "verify_tor_connection"
    /\ last.res.raised
    /\ last.pre_enabled
    /\ tor_enabled
    /\ appProxy = TorDescriptor

C14_NonDebugNeverRaises ==
    ~debug_mode =>
        /\ ~last.res.raised
        /\ (last.op = "is_tor_running" /\ last.ctl.failAt # "none") => ReturnedFalse
        /\ (last.op = "verify_tor_connection" /\ ~TorUp) => ReturnedFalse
        /\ (last.op = "enable_tor" /\ (~TorUp \/ last.pf)) => ReturnedFalse
        /\ (last.op = "disable_tor" /\ last.pf) => ReturnedFalse
        /\ (last.op = "get_new_identity" /\ last.ctl.failAt # "none") => ReturnedFalse
        /\ (last.op = "get_current_ip" /\ last.ip.failAt # "none") =>
              last.res = [raised |-> FALSE, val |-> "None", text |-> <<>>]

\* get_current_ip on an Enabled manager, non-debug, whose recv fails.
C14_Witness ==
    /\ last.op = "get_current_ip"
    /\ ~debug_mode
    /\ last.pre_enabled
    /\ last.ip.failAt = "recv"
    /\ last.res.val = "None"

\* C15 as stated: in debug mode every failure that returns false or None in
\* non-debug mode is raised as an exception of the Tor taxonomy; in
\* particular enable_tor with a healthy control port and an unreachable
\* SOCKS port raises.
TorTaxonomy ==
    {"TorConnectionError", "TorNotRunningError", "TorProxyError", "TorAuthenticationError"}

C15_Original ==
    debug_mode =>
        /\ (last.op = "is_tor_running" /\ last.ctl.failAt # "none") => last.res.raised
        /\ (last.op \in {"verify_tor_connection", "enable_tor"} /\ ~TorUp) => last.res.raised
        /\ (last.op = "get_new_identity" /\ last.pre_enabled /\ last.ctl.failAt # "none")
              => last.res.raised
        /\ (last.op = "get_current_ip" /\ last.pre_enabled /\ last.ip.failAt # "none")
              => last.res.raised
        /\ last.res.raised => last.res.val \in TorTaxonomy

\* C17 as stated: a TorConfig with a port outside 1..65535 or an empty host
\* is rejected at construction with ConfigurationError, so no manager
\* exists, and no method runs, with such a configuration.
ValidTorConfig(cfg) ==
    /\ IsPort(cfg.socks_port)
    /\ IsPort(cfg.control_port)
    /\ cfg.host # ""

C17_Original ==
    ~ValidTorConfig(tor_config) =>
        /\ last.op = "__init__"
        /\ last.res = [raised |-> TRUE, val |-> "ConfigurationError", text |-> <<>>]

\* C18: is_tor_running classifies a failure by exception type first and
\* message second: ConnectionRefusedError/OSError is "not running" whatever
\* its message, another exception whose message holds "authentication" or
\* "password" in any letter case is an authentication failure, every other
\* one is generic; debug mode raises the matching exception, non-debug mode
\* returns false.
AuthenticationMessages ==
    { <<"Authentication", "failed">>, <<"Incorrect", "PASSWORD">>,
      <<"Authentication", "socket", "closed">> }

ExpectedClass(err) ==
    IF err.cls \in {"ConnectionRefusedError", "OSError"} THEN "TorNotRunningError"
    ELSE IF err.msg \in AuthenticationMessages THEN "TorAuthenticationError"
    ELSE "TorConnectionError"

ExpectedLine(err) ==
    CASE ExpectedClass(err) = "TorNotRunningError" -> NotRunningLine
      [] ExpectedClass(err) = "TorAuthenticationError" -> AuthLine
      [] OTHER -> GenericLine

C18_ThreeWayClassification ==
    (last.op = "is_tor_running" /\ last.ctl.failAt # "none") =>
        /\ last.log = <<ExpectedLine(last.ctl.err)>>
        /\ debug_mode => RaisedClass(ExpectedClass(last.ctl.err))
        /\ ~debug_mode => ReturnedFalse

\* An OSError whose message speaks of authentication, in debug mode.
C18_Witness ==
    /\ last.op = "is_tor_running"
    /\ debug_mode
    /\ last.ctl.err.cls = "OSError"
    /\ last.ctl.err.msg[1] = "Authentication"
    /\ RaisedClass("TorNotRunningError")

\* C20 as stated: when is_tor_running, verify_tor_connection,
\* get_new_identity or get_current_ip completes, by return or by raise, every
\* control connection and every socket the call opened has been closed.
CountEv(trace, name, oks) ==
    Cardinality({i \in DOMAIN trace : trace[i].ev = name /\ trace[i].ok \in oks})

OpenControlConnections(trace) ==
    CountEv(trace, "ctl_connect", {TRUE}) - CountEv(trace, "ctl_close", {TRUE})

\* A socket exists from socket() on, whether or not its connect succeeds.
OpenSockets(trace) ==
    CountEv(trace, "socks_connect", BOOLEAN) - CountEv(trace, "socks_close", {TRUE})

C20_Original ==
    last.op \in {"is_tor_running", "verify_tor_connection", "get_new_identity", "get_current_ip"} =>
        /\ OpenControlConnections(last.trace) = 0
        /\ OpenSockets(last.trace) = 0


\* C16 as stated: after toggle_tor(True) has run with an enable_tor that
\* failed, in debug mode as in non-debug mode, the button is unchecked,
\* tor_enabled is false and the application proxy is not the Tor
\* descriptor; after every toggle_tor the button's checked state equals
\* tor_enabled.
ToggleHandlers == {"toggle_tor(True)", "toggle_tor(False)"}

C16_Original ==
    /\ (last.op = "toggle_tor(True)" /\ ~ReturnedTrue) =>
            /\ ~ui.checked
            /\ ~tor_enabled
            /\ appProxy # TorDescriptor
    /\ last.op \in ToggleHandlers => (ui.checked <=> tor_enabled)

\* C19: the debug flag changes only how a failure is delivered.  Two
\* managers with the same configuration, one in debug mode and one not,
\* given the same calls and the same environment, have after each call the
\* same tor_enabled and the same application proxy; a call fails in one
\* exactly when it fails in the other, a call that succeeds returns the
\* same value in both, both log the same failure line, and the class the
\* debug manager raises from the control check is the class the other logs.
Failed(res) == res.raised \/ res.val \in {"False", "None"}

IsFailureLine(line) == line.level \in {"warning", "error"}

\* The first warning or error a call logged, or "-" when it logged none.
RECURSIVE FailureLine(_)
FailureLine(log) ==
    IF log = <<>> THEN "-"
    ELSE IF IsFailureLine(Head(log)) THEN Head(log).msg
    ELSE FailureLine(Tail(log))

\* The result and the log of the debug run and of the non-debug run.
DebugRun == IF debug_mode THEN [res |-> last.res, log |-> last.log]
            ELSE [res |-> twin.res, log |-> twin.log]
PlainRun == IF debug_mode THEN [res |-> twin.res, log |-> twin.log]
            ELSE [res |-> last.res, log |-> last.log]

ControlClasses == {"TorNotRunningError", "TorAuthenticationError", "TorConnectionError"}

C19_DebugOnlyChangesDelivery ==
    /\ twin.tor_enabled = tor_enabled
    /\ twin.appProxy = appProxy
    /\ Failed(last.res) <=> Failed(twin.res)
    /\ ~Failed(last.res) => twin.res = last.res
    /\ ~PlainRun.res.raised
    /\ FailureLine(DebugRun.log) = FailureLine(PlainRun.log)
    /\ (last.op \in ControlCheckOps /\ DebugRun.res.raised
            /\ DebugRun.res.val \in ControlClasses) =>
            \E i \in 1..Len(PlainRun.log) : PlainRun.log[i] = ClassLog(DebugRun.res.val)

\* The debug manager raised TorAuthenticationError from enable_tor while Tor
\* was enabled in both; the other returned False.
C19_Witness ==
    /\ last.op = "enable_tor"
    /\ last.pre_enabled
    /\ DebugRun.res = Raise("TorAuthenticationError")
    /\ PlainRun.res = Return("False")
    /\ tor_enabled /\ twin.tor_enabled

\* C21: there is no retry.  Whatever retry_attempts is, one enable_tor makes
\* at most one control connection attempt and at most one SOCKS connection
\* attempt, one get_new_identity makes at most one control connection
\* attempt, and the result and the calls made are those of the same call
\* under any other retry_attempts.
RetryAttemptValues == {cfg.retry_attempts : cfg \in TorConfigs}

WithRetryAttempts(cfg, n) == [cfg EXCEPT !.retry_attempts = n]

C21_NoRetry ==
    /\ last.op = "enable_tor" =>
        /\ CountEv(last.trace, "ctl_connect", BOOLEAN) <= 1
        /\ CountEv(last.trace, "socks_connect", BOOLEAN) <= 1
        /\ \A n \in RetryAttemptValues :
              LET e == enable_tor(WithRetryAttempts(tor_config, n), debug_mode, proxy,
                                  last.pre_enabled, last.pre_app, last.ctl, last.socks, last.pf)
              IN  e.res = last.res /\ e.trace = last.trace /\ e.enabled = tor_enabled
    /\ last.op = "get_new_identity" =>
        /\ CountEv(last.trace, "ctl_connect", BOOLEAN) <= 1
        /\ \A n \in RetryAttemptValues :
              LET o == get_new_identity(WithRetryAttempts(tor_config, n), debug_mode,
                                        last.pre_enabled, last.ctl)
              IN  o.res = last.res /\ o.trace = last.trace

\* enable_tor with retry_attempts = 3 met a refused control connection: one
\* attempt, False.
C21_Witness ==
    /\ last.op = "enable_tor"
    /\ tor_config.retry_attempts = DefaultRetryAttempts
    /\ ~debug_mode
    /\ ControlRefused
    /\ CountEv(last.trace, "ctl_connect", BOOLEAN) = 1
    /\ ReturnedFalse

\* C22 as stated: the SOCKS probe of verify_tor_connection connects with a
\* timeout equal to tor_config.timeout.
C22_Original ==
    last.op \in {"verify_tor_connection", "enable_tor"} =>
        \A i \in DOMAIN last.trace :
            last.trace[i].ev = "socks_connect" => last.trace[i].timeout = tor_config.timeout

\* C23 as stated: every control connection of is_tor_running and
\* get_new_identity goes to (tor_config.host, tor_config.control_port), so
\* the control check and the SOCKS probe of one enable_tor address the same
\* host.
C23_Original ==
    /\ last.op \in {"is_tor_running", "get_new_identity"} =>
        \A i \in DOMAIN last.trace :
            last.trace[i].ev = "ctl_connect" =>
                /\ last.trace[i].host = tor_config.host
                /\ last.trace[i].port = tor_config.control_port
    /\ last.op = "enable_tor" =>
        \A i, j \in DOMAIN last.trace :
            (last.trace[i].ev = "ctl_connect" /\ last.trace[j].ev = "socks_connect") =>
                last.trace[i].host = last.trace[j].host

\* C24: when QNetworkProxy.setApplicationProxy raises in enable_tor or
\* disable_tor, tor_enabled (and the application proxy) keep their prior
\* value, debug mode raises TorProxyError and non-debug mode returns False;
\* disable_tor returns False in no other case.
ProxyWriteRaised ==
    \E i \in DOMAIN last.trace :
        last.trace[i].ev = "setApplicationProxy" /\ ~last.trace[i].ok

C24_ProxyFaultReported ==
    /\ (last.op \in {"enable_tor", "disable_tor"} /\ ProxyWriteRaised) =>
        /\ tor_enabled = last.pre_enabled
        /\ appProxy = last.pre_app
        /\ debug_mode => RaisedClass("TorProxyError")
        /\ ~debug_mode => ReturnedFalse
    /\ (last.op = "disable_tor" /\ ~ReturnedTrue) => ProxyWriteRaised

\* disable_tor while enabled, the proxy write raising, in non-debug mode.
C24_Witness ==
    /\ last.op = "disable_tor"
    /\ last.pre_enabled
    /\ ProxyWriteRaised
    /\ ~debug_mode
    /\ ReturnedFalse
    /\ tor_enabled

\* C25: enable_tor and disable_tor take no lock.  While one caller is
\* between its write of the application proxy and its write of tor_enabled,
\* every step of the other caller can be taken; a state is then reached,
\* both calls having returned, in which tor_enabled and the application
\* proxy disagree.
BetweenWrites(t) == calls[t].pc = "write_flag"

C25_NoLock ==
    \A t \in Callers : \A u \in Callers \ {t} :
        BetweenWrites(t) =>
            /\ calls[u].pc \in {"idle", "returned"} => ENABLED RaceCall(u)
            /\ calls[u].pc = "verify" => ENABLED RaceVerify(u)
            /\ calls[u].pc = "write_proxy" => ENABLED RaceWriteProxy(u)
            /\ calls[u].pc = "write_flag" => ENABLED RaceWriteFlag(u)

\* An enable_tor and a disable_tor have both returned True; tor_enabled is
\* true and the application proxy is "no proxy".
C25_Witness ==
    /\ \E t \in Callers : \E u \in Callers \ {t} :
        /\ calls[t] = [op |-> "enable_tor", pc |-> "returned", res |-> Return("True")]
        /\ calls[u] = [op |-> "disable_tor", pc |-> "returned", res |-> Return("True")]
    /\ tor_enabled
    /\ appProxy = NoProxyDesc

\* The other disagreement: tor_enabled false with the Tor proxy set.
C25_WitnessProxyLeft ==
    /\ \A t \in Callers : calls[t].pc = "returned" /\ calls[t].res = Return("True")
    /\ \E t \in Callers : calls[t].op = "enable_tor"
    /\ \E t \in Callers : calls[t].op = "disable_tor"
    /\ ~tor_enabled
    /\ appProxy = TorDescriptor

\* C26 as stated: with two managers sharing the application proxy and called
\* one at a time, each keeps "tor_enabled implies the application proxy is
\* my own SOCKS5 descriptor".
C26_Original ==
    /\ tor_enabled => appProxy = proxy
    /\ second.tor_enabled => appProxy = second.proxy

\* C26: what holds with two managers is the invariant of the manager whose
\* enable_tor or disable_tor has just returned True: its tor_enabled holds
\* exactly when the application proxy is its own descriptor.  The other
\* manager's tor_enabled is not written by the call.
FirstWrites == {"enable_tor", "disable_tor"}
SecondWrites == {"second.enable_tor", "second.disable_tor"}

C26_LastWriterConsistent ==
    /\ (last.op \in FirstWrites /\ ReturnedTrue) => (tor_enabled <=> appProxy = proxy)
    /\ (last.op \in SecondWrites /\ ReturnedTrue) =>
            (second.tor_enabled <=> appProxy = second.proxy)

\* The second manager has just disabled Tor; the first still has
\* tor_enabled true and the application proxy is "no proxy".
C26_Witness ==
    /\ last.op = "second.disable_tor"
    /\ ReturnedTrue
    /\ tor_enabled
    /\ ~second.tor_enabled
    /\ appProxy = NoProxyDesc

\* C27 as stated, for the sequence it singles out: when each redirect to
\* https is followed by a change back to the same http URL,
\* force_https_redirect redirects that URL at most 4 times.
C27_Original ==
    engine.loop => \A u \in Urls : engine.redirects[u] <= 4

\* C28: after any sequence of toggle_camera, toggle_microphone, add_new_tab,
\* close_tab and clear_all, every open tab's camera_enabled equals the
\* camera toggle's checked state and every open tab's microphone_enabled
\* equals the microphone toggle's; after clear_all both toggles are
\* unchecked and both flags are false in every tab.
C28_TabsFollowToggles ==
    /\ \A i \in DOMAIN window.tabs :
        /\ window.tabs[i].camera_enabled = window.camera_toggle
        /\ window.tabs[i].microphone_enabled = window.microphone_toggle
    /\ window.op = "clear_all" =>
        /\ ~window.camera_toggle
        /\ ~window.microphone_toggle
        /\ \A i \in DOMAIN window.tabs : window.tabs[i] = NewEngineFlags

\* A tab added while the camera toggle is checked and the microphone toggle
\* is not.
C28_Witness ==
    /\ window.op = "add_new_tab"
    /\ Len(window.tabs) = MaxTabs
    /\ window.camera_toggle
    /\ ~window.microphone_toggle
    /\ window.tabs[Len(window.tabs)].camera_enabled

\* C29: handle_permission_request grants a camera request only while
\* camera_enabled is true and a microphone request only while
\* microphone_enabled is true, always grants full screen and denies every
\* other feature; every request gets a decision, and one decision only
\* (every setFeaturePermission call made for it carries the same policy);
\* both flags are false until a toggle enables them.
ExpectedDecision(flags, feature) ==
    IF feature = "MediaVideoCapture" THEN (IF flags.camera_enabled THEN Granted ELSE Denied)
    ELSE IF feature = "MediaAudioCapture"
         THEN (IF flags.microphone_enabled THEN Granted ELSE Denied)
    ELSE IF feature = "FullScreen" THEN Granted
    ELSE Denied

C29_PermissionDecisions ==
    /\ window.op = "handle_permission_request" =>
        /\ window.request.decisions # <<>>
        /\ \A i \in DOMAIN window.request.decisions :
              window.request.decisions[i] =
                  ExpectedDecision(window.tabs[window.request.tab], window.request.feature)
    /\ window.op = "__init__" => \A i \in DOMAIN window.tabs : window.tabs[i] = NewEngineFlags
    /\ \A i \in DOMAIN window.tabs :
        /\ window.tabs[i].camera_enabled => window.camera_toggle
        /\ window.tabs[i].microphone_enabled => window.microphone_toggle

\* A camera request granted in a tab whose microphone is blocked.
C29_Witness ==
    /\ window.op = "handle_permission_request"
    /\ window.request.feature = "MediaVideoCapture"
    /\ window.tabs[window.request.tab].camera_enabled
    /\ ~window.tabs[window.request.tab].microphone_enabled
    /\ window.request.decisions = <<Granted>>

\* C30: the last tab is never closed.  The window has at least one tab
\* after any sequence of add_new_tab and close_tab, and close_tab with one
\* tab open leaves the tabs as they are.
C30_LastTabStays ==
    /\ Len(window.tabs) >= 1
    /\ (window.op = "close_tab" /\ Len(window.pre) = 1) => window.tabs = window.pre

\* close_tab was called with one tab open, and the tab is still there.
C30_Witness ==
    /\ window.op = "close_tab"
    /\ Len(window.pre) = 1
    /\ window.tabs = window.pre
    /\ window.camera_toggle

=============================================================================
